---- MODULE Spec2Model ----
(***************************************************************************)
(* The artifact upload pipeline of the S3 media upload service.            *)
(*                                                                         *)
(* The repository holds two deployments of the same HTTP surface:          *)
(*   "upload" : src/upload.py            (one FastAPI app)                 *)
(*   "media"  : src/app/main.py + src/app/routers/media.py                 *)
(* A run of the model is one deployment (impl) serving up to NReq          *)
(* requests.  Handlers are coroutines on one event loop: a handler runs    *)
(* atomically from one real suspension point (await file.read(), the       *)
(* remote fetch, the render call) to the next, so each handler is one      *)
(* action (no suspension) or a Begin/Resume pair.  The blocking boto3      *)
(* calls never yield, so a put and the response built after it belong to   *)
(* the step that issues the put.                                           *)
(*                                                                         *)
(* Specifications:                                                         *)
(*   Spec       : every endpoint of the deployment                         *)
(*   SpecDecode : the image upload over all short base64 payloads          *)
(*   SpecRender : the render endpoints over file names with and without    *)
(*                the .png extension                                       *)
(*   SpecLive   : the suspending handlers under a fair event loop          *)
(***************************************************************************)
EXTENDS Integers, Sequences, FiniteSets, TLC

\* ------------------------------------------------------------------ bounds
\* Number of requests served in one run.
NReq == 2
\* The timestamp (seconds) ranges over 0..MaxClock.
MaxClock == 1
\* Longest byte string encoded into a base64 payload.
MaxBytes == 2

Reqs == 1..NReq

\* ------------------------------------------------------------ configuration
S3_BUCKET == "bucket"
AWS_REGION == "region"

\* --------------------------------------------------------------- characters
\* Strings that the code inspects are sequences of one-character strings.
B64Alphabet ==
  << "A","B","C","D","E","F","G","H","I","J","K","L","M","N","O","P",
     "Q","R","S","T","U","V","W","X","Y","Z","a","b","c","d","e","f",
     "g","h","i","j","k","l","m","n","o","p","q","r","s","t","u","v",
     "w","x","y","z","0","1","2","3","4","5","6","7","8","9","+","/" >>

B64Chars == { B64Alphabet[i] : i \in 1..64 }

\* The 6-bit value of an alphabet character.
B64Value(c) == (CHOOSE i \in 1..64 : B64Alphabet[i] = c) - 1

\* str.startswith
StartsWith(s, p) == Len(s) >= Len(p) /\ SubSeq(s, 1, Len(p)) = p

\* Position of the first "," at or after position i, or 0.
RECURSIVE FindComma(_, _)
FindComma(s, i) ==
  IF i > Len(s) THEN 0
  ELSE IF s[i] = "," THEN i
  ELSE FindComma(s, i + 1)

\* s.split(',')[1]: the text between the first and the second comma.
\* ok is FALSE when there is no comma (IndexError).
SplitComma1(s) ==
  LET c1 == FindComma(s, 1) IN
  IF c1 = 0 THEN [ok |-> FALSE, str |-> << >>]
  ELSE LET c2 == FindComma(s, c1 + 1) IN
       [ok |-> TRUE,
        str |-> SubSeq(s, c1 + 1, IF c2 = 0 THEN Len(s) ELSE c2 - 1)]

\* ------------------------------------------------------------------ base64
\* base64.b64encode of a byte string (a sequence over 0..255).
RECURSIVE B64Encode(_)
B64Encode(b) ==
  IF Len(b) = 0 THEN << >>
  ELSE IF Len(b) = 1 THEN
    << B64Alphabet[(b[1] \div 4) + 1],
       B64Alphabet[((b[1] % 4) * 16) + 1], "=", "=" >>
  ELSE IF Len(b) = 2 THEN
    << B64Alphabet[(b[1] \div 4) + 1],
       B64Alphabet[((b[1] % 4) * 16 + (b[2] \div 16)) + 1],
       B64Alphabet[((b[2] % 16) * 4) + 1], "=" >>
  ELSE
    << B64Alphabet[(b[1] \div 4) + 1],
       B64Alphabet[((b[1] % 4) * 16 + (b[2] \div 16)) + 1],
       B64Alphabet[((b[2] % 16) * 4 + (b[3] \div 64)) + 1],
       B64Alphabet[(b[3] % 64) + 1] >>
    \o B64Encode(SubSeq(b, 4, Len(b)))

\* base64.b64decode(s) with validate=False (binascii.a2b_base64, non-strict):
\* characters outside the alphabet are skipped, a complete pad sequence ends
\* the parse, a dangling partial quad is an error (binascii.Error).
RECURSIVE A2BLoop(_, _, _, _, _, _)
A2BLoop(s, i, quad, left, pads, out) ==
  IF i > Len(s) THEN
    IF quad # 0 THEN [ok |-> FALSE, bytes |-> << >>]
    ELSE [ok |-> TRUE, bytes |-> out]
  ELSE IF s[i] = "=" THEN
    IF quad >= 2 /\ quad + pads + 1 >= 4 THEN [ok |-> TRUE, bytes |-> out]
    ELSE A2BLoop(s, i + 1, quad, left,
                 IF quad >= 2 THEN pads + 1 ELSE pads, out)
  ELSE IF s[i] \notin B64Chars THEN A2BLoop(s, i + 1, quad, left, pads, out)
  ELSE LET v == B64Value(s[i]) IN
    CASE quad = 0 -> A2BLoop(s, i + 1, 1, v, 0, out)
      [] quad = 1 ->
           A2BLoop(s, i + 1, 2, v % 16, 0, Append(out, left * 4 + (v \div 16)))
      [] quad = 2 ->
           A2BLoop(s, i + 1, 3, v % 4, 0, Append(out, left * 16 + (v \div 4)))
      [] OTHER ->
           A2BLoop(s, i + 1, 0, 0, 0, Append(out, left * 64 + v))

B64Decode(s) == A2BLoop(s, 1, 0, 0, 0, << >>)


\* ------------------------------------------------------------------ inputs
\* Byte values and byte strings that clients encode into payloads.
ByteVals == {0, 77, 255}

RECURSIVE ByteStrs(_)
ByteStrs(n) ==
  IF n = 0 THEN { << >> }
  ELSE ByteStrs(n - 1)
       \cup { Append(b, v) : b \in { x \in ByteStrs(n - 1) : Len(x) = n - 1 },
                             v \in ByteVals }

\* "data:image/png;base64," as the browser's FileReader writes it.
DataUrlPrefix ==
  << "d","a","t","a",":","i","m","a","g","e","/","p","n","g",";",
     "b","a","s","e","6","4","," >>

\* The file_base64 field: absent (None) or a string.
NoPayload == [some |-> FALSE, str |-> << >>]
Payload(s) == [some |-> TRUE, str |-> s]

\* Payloads of the requests of Spec: absent, empty, a good payload with and
\* without the data-URL prefix, a payload with a dangling character, and a
\* data: payload without a comma.
CorePayloads ==
  { NoPayload, Payload(<< >>), Payload(B64Encode(<<77>>)),
    Payload(DataUrlPrefix \o B64Encode(<<77>>)), Payload(<<"T">>),
    Payload(<<"d","a","t","a",":">>) }

\* Payloads of SpecDecode: every byte string up to MaxBytes, bare and
\* prefixed.
DecodePayloads ==
  { Payload(B64Encode(b)) : b \in ByteStrs(MaxBytes) }
  \cup { Payload(DataUrlPrefix \o B64Encode(b)) : b \in ByteStrs(MaxBytes) }

FileNames == { <<"c","a","t">> }
Owners == { "u1" }
FileTypes == { "docs" }

\* Declared content types of a multipart file; << >> is an absent one.
NoCType == << >>
ImagePng == << "i","m","a","g","e","/","p","n","g" >>
TextPlain == << "t","e","x","t","/","p","l","a","i","n" >>
OctetStream == << "a","p","p","l","i","c","a","t","i","o","n","/","o","c","t","e","t","-","s","t","r","e","a","m" >>
AudioWav == << "a","u","d","i","o","/","w","a","v" >>
CTypes == { NoCType, ImagePng, TextPlain }

\* Contents: of an uploaded file, of a rendered PNG, of a fetched source.
FileBytes == << 7 >>
PngBytes == << 137, 80 >>
SourceBytes == << 9 >>
\* ... and of a page that a source returns in place of audio.
PageBytes == << 60, 104 >>

\* -------------------------------------------------------------- object keys
\* A key is a sequence of path segments (joined by "/"); a segment is a
\* sequence of tokens (joined by "_").  A token is a literal, the timestamp,
\* the uuid or a file name, followed by the literal text chars.
Lit(x) == [tag |-> "lit", n |-> 0, s |-> x, chars |-> << >>]
Ts(t) == [tag |-> "ts", n |-> t, s |-> "", chars |-> << >>]
Uuid(u) == [tag |-> "uuid", n |-> u, s |-> "", chars |-> << >>]
Name(f) == [tag |-> "name", n |-> 0, s |-> "", chars |-> f]
DotPng == << ".","p","n","g" >>

NoKey == << >>

\* Mutant of OwnedKey: the key is built without the uuid.
OwnedKeyNoUuid(category, user_id, timestamp, unique_id, file_name) ==
  << <<Lit(category)>>, <<Lit(user_id)>>,
     <<Ts(timestamp), Name(file_name)>> >>

\* upload.py: f"{category}/{user_id}/{timestamp}_{unique_id}_{file_name}"
OwnedKey(category, user_id, timestamp, unique_id, file_name) ==
  << <<Lit(category)>>, <<Lit(user_id)>>,
     <<Ts(timestamp), Uuid(unique_id), Name(file_name)>> >>

\* upload.py: f"{file_type}/{timestamp}_{unique_id}_{file.filename}"
LegacyKey(file_type, timestamp, unique_id, file_name) ==
  << <<Lit(file_type)>>,
     <<Ts(timestamp), Uuid(unique_id), Name(file_name)>> >>

\* media.py: f"{category}/{unique_id}/{file_name}"
RouterKey(category, unique_id, file_name) ==
  << <<Lit(category)>>, <<Uuid(unique_id)>>, <<Name(file_name)>> >>

\* media.py: request.file_name or f"{timestamp}_{unique_id}.png", then
\* f"{category}/{unique_id}/{file_name}"
RenderKey(category, timestamp, unique_id, file_name) ==
  IF file_name # << >> THEN RouterKey(category, unique_id, file_name)
  ELSE << <<Lit(category)>>, <<Uuid(unique_id)>>,
          <<Ts(timestamp), [Uuid(unique_id) EXCEPT !.chars = DotPng]>> >>

\* ------------------------------------------------------------------- state
VARIABLES
  impl,    \* the deployment: "upload" (upload.py) or "media" (app/)
  config,  \* the module globals S3_BUCKET, AWS_REGION and s3 (the client)
  pc,      \* per request: "idle", "await" (suspended at an await), "done"
  req,     \* per request: the request as received
  key,     \* per request: the object key assigned, or NoKey
  stages,  \* per request: the pipeline stages passed, in order
  cause,   \* per request: the stage that failed, or "none"
  nput,    \* per request: the store puts issued
  ncall,   \* per request: the render calls and source fetches started
  store,   \* the bucket: the objects it holds
  resp,    \* per request: the response sent, or NoResp
  ext,     \* per request: how the awaited external call ended, or "none"
  browser, \* per request: the headless browser of its render call
  clock,   \* datetime.utcnow(), in seconds
  nextId   \* the uuid4 values drawn so far (each draw is fresh)

vars ==
  << impl, config, pc, req, key, stages, cause, nput, ncall, store, resp,
     ext, browser, clock, nextId >>

\* The globals as the module sets them when it is imported.
Startup == [bucket |-> S3_BUCKET, region |-> AWS_REGION, client |-> "s3"]

\* ------------------------------------------------- exceptions and responses
NoExc == [type |-> "none", status |-> 0, detail |-> ""]
HTTPException(status_code, detail) ==
  [type |-> "HTTPException", status |-> status_code, detail |-> detail]
Exception(detail) == [type |-> "Exception", status |-> 0, detail |-> detail]

NoUrl == << >>

\* Mutant of PublicUrl: the path-style address, with the bucket after the
\* host.
PublicUrlPathStyle(object_key) ==
  << "https", "s3", AWS_REGION, S3_BUCKET, object_key >>

\* f"https://{S3_BUCKET}.s3.{AWS_REGION}.amazonaws.com/{object_key}": the
\* scheme, the labels of the host before amazonaws.com, and the path.
PublicUrl(object_key) ==
  << "https", config.bucket, "s3", config.region, object_key >>

NoResp ==
  [status |-> 0, detail |-> "", url |-> NoUrl, key |-> NoKey, conv |-> FALSE]

\* The response FastAPI sends for an exception that leaves a handler: an
\* HTTPException becomes its status and detail; anything else is the
\* server's bare 500.
ErrorResponse(e) ==
  IF e.type = "HTTPException"
  THEN [status |-> e.status, detail |-> e.detail, url |-> NoUrl,
        key |-> NoKey, conv |-> TRUE]
  ELSE [status |-> 500, detail |-> "Internal Server Error", url |-> NoUrl,
        key |-> NoKey, conv |-> FALSE]

\* upload.py's handlers: except HTTPException: raise; except Exception: 500.
CatchUpload(e, label) ==
  IF e.type = "HTTPException" THEN e ELSE HTTPException(500, label)

\* media.py's handlers (and upload.py's generic upload): except Exception: 500.
CatchAny(e, label) == HTTPException(500, label)


\* ----------------------------------------------------------------- requests
NoReq ==
  [ep |-> "none", payload |-> NoPayload, fname |-> << >>, ctype |-> NoCType,
   owner |-> "", ftype |-> ""]

Request(ep, payload, fname, ctype, owner, ftype) ==
  [ep |-> ep, payload |-> payload, fname |-> fname, ctype |-> ctype,
   owner |-> owner, ftype |-> ftype]

Init ==
  /\ impl \in {"upload", "media"}
  /\ config = Startup
  /\ pc = [r \in Reqs |-> "idle"]
  /\ req = [r \in Reqs |-> NoReq]
  /\ key = [r \in Reqs |-> NoKey]
  /\ stages = [r \in Reqs |-> << >>]
  /\ cause = [r \in Reqs |-> "none"]
  /\ nput = [r \in Reqs |-> 0]
  /\ ncall = [r \in Reqs |-> 0]
  /\ store = {}
  /\ resp = [r \in Reqs |-> NoResp]
  /\ ext = [r \in Reqs |-> "none"]
  /\ browser = [r \in Reqs |-> "none"]
  /\ clock = 0
  /\ nextId = 1

\* ------------------------------------------------------------ store client
Object(k, body, ct, r) == [key |-> k, body |-> body, ctype |-> ct, by |-> r]

\* Mutant of PutObjects: the bucket keeps only what was put last.
PutObjectsLastOnly(bucket, objs) == IF objs = {} THEN bucket ELSE objs

\* S3 put semantics: a put at a key replaces the object at that key.
PutObjects(bucket, objs) ==
  { o \in bucket : \A n \in objs : o.key # n.key } \cup objs

\* Whether the put goes through: the backend takes the write (ok) and boto3
\* does not refuse the parameters first (ContentType=None is a
\* ParamValidationError).
S3Accepts(ok, content_type) == ok /\ content_type # NoCType

\* Mutant of UploadToS3Bucket: the except branch swallows the failure and the
\* URL is returned all the same.
UploadToS3BucketSwallow(accepted, object_key) ==
  [exc |-> NoExc, url |-> PublicUrl(object_key)]

\* upload.py upload_to_s3_bucket: a failed put becomes HTTPException(500).
UploadToS3Bucket(accepted, object_key) ==
  IF accepted THEN [exc |-> NoExc, url |-> PublicUrl(object_key)]
  ELSE [exc |-> HTTPException(500, "S3 upload failed"), url |-> NoUrl]

\* media.py upload_to_s3_bucket: a failed put is re-raised as it is.
RouterUploadToS3Bucket(accepted, object_key) ==
  IF accepted THEN [exc |-> NoExc, url |-> PublicUrl(object_key)]
  ELSE [exc |-> Exception("put_object failed"), url |-> NoUrl]

\* ---------------------------------------------------------------- responses
\* upload.py UploadResponse(s3_url, file_path, message)
UploadResponse(s3_url, file_path, message) ==
  [status |-> 200, detail |-> message, url |-> s3_url, key |-> file_path,
   conv |-> FALSE]

\* media.py UploadResponse(success, uploaded_url, message): no storage key
RouterUploadResponse(uploaded_url, message) ==
  [status |-> 200, detail |-> message, url |-> uploaded_url, key |-> NoKey,
   conv |-> FALSE]

\* the generic upload's dict {s3_key, public_url, message}
GenericResponse(s3_key, public_url) ==
  [status |-> 200, detail |-> "Upload successful and file is public",
   url |-> public_url, key |-> s3_key, conv |-> FALSE]

\* What one atomic run of handler code did: the stages it passed, the stage
\* that failed, the key, the puts issued, the objects written, the response.
Result(st, why, k, puts, objs, rsp) ==
  [st |-> st, cause |-> why, key |-> k, puts |-> puts, objs |-> objs,
   resp |-> rsp]

\* -------------------------------------------- the store step and the response
\* Mutant of AfterPut: the upload is started but not awaited, so the response
\* is built before the put has stored anything.
AfterPutUnawaited(r, st, k, body, ct, accepted, exc, success) ==
  Result(st \o <<"Responded">> \o (IF accepted THEN <<"Stored">> ELSE << >>),
         IF accepted THEN "none" ELSE "put", k, 1,
         IF accepted THEN {Object(k, body, ct, r)} ELSE {}, success)

\* Mutant of AfterPut: a refused put is issued once more before the handler
\* gives up.
AfterPutRetried(r, st, k, body, ct, accepted, exc, success) ==
  Result(st \o (IF accepted THEN <<"Stored">> ELSE << >>)
            \o (IF exc = NoExc THEN <<"Responded">> ELSE <<"Failed">>),
         IF accepted THEN "none" ELSE "put", k, IF accepted THEN 1 ELSE 2,
         IF accepted THEN {Object(k, body, ct, r)} ELSE {},
         IF exc = NoExc THEN success ELSE ErrorResponse(exc))

\* What a put and the code after it did, given what the store did (accepted)
\* and what the handler saw (exc): the object is written iff the store
\* accepted it; the response is the handler's.
AfterPut(r, st, k, body, ct, accepted, exc, success) ==
  Result(st \o (IF accepted THEN <<"Stored">> ELSE << >>)
            \o (IF exc = NoExc THEN <<"Responded">> ELSE <<"Failed">>),
         IF accepted THEN "none" ELSE "put", k, 1,
         IF accepted THEN {Object(k, body, ct, r)} ELSE {},
         IF exc = NoExc THEN success ELSE ErrorResponse(exc))

\* upload.py, typed handlers: s3_url = await upload_to_s3_bucket(...);
\* return UploadResponse(...); except HTTPException: raise
UploadTail(r, st, k, body, ct, ok, label, message) ==
  LET accepted == S3Accepts(ok, ct)
      up == UploadToS3Bucket(accepted, k)
  IN AfterPut(r, st, k, body, ct, accepted,
              IF up.exc = NoExc THEN NoExc ELSE CatchUpload(up.exc, label),
              UploadResponse(up.url, k, message))

\* upload.py upload_generic_file: except Exception wraps everything
GenericTail(r, st, k, body, ct, ok) ==
  LET accepted == S3Accepts(ok, ct)
      up == UploadToS3Bucket(accepted, k)
  IN AfterPut(r, st, k, body, ct, accepted,
              IF up.exc = NoExc THEN NoExc
              ELSE CatchAny(up.exc, "Generic upload failed"),
              GenericResponse(k, up.url))

\* media.py, typed handlers: public_url = await upload_to_s3_bucket(...);
\* return {...}; except Exception as e: raise HTTPException(500, ...)
RouterTail(r, st, k, body, ct, ok, label, message) ==
  LET accepted == S3Accepts(ok, ct)
      up == RouterUploadToS3Bucket(accepted, k)
  IN AfterPut(r, st, k, body, ct, accepted,
              IF up.exc = NoExc THEN NoExc ELSE CatchAny(up.exc, label),
              RouterUploadResponse(up.url, message))

\* media.py upload_generic_file: s3.put_object(...) with no try around it,
\* so a failed put leaves the handler as it is
RouterGenericTail(r, st, k, body, ct, ok) ==
  LET accepted == S3Accepts(ok, ct) IN
  AfterPut(r, st, k, body, ct, accepted,
           IF accepted THEN NoExc ELSE Exception("put_object failed"),
           GenericResponse(k, PublicUrl(k)))

\* ------------------------------------------------------------ state updates
\* A request slot is taken in order: r starts once r-1 has.
Fresh(r) ==
  /\ pc[r] = "idle"
  /\ IF r = 1 THEN TRUE ELSE pc[r - 1] # "idle"

\* The handler of r ran to its end with result res; its external call ended
\* as how and left its browser as session.
Finish(r, rq, res, ids, how, session) ==
  /\ pc' = [pc EXCEPT ![r] = "done"]
  /\ req' = [req EXCEPT ![r] = rq]
  /\ key' = [key EXCEPT ![r] = res.key]
  /\ stages' = [stages EXCEPT ![r] = @ \o res.st]
  /\ cause' = [cause EXCEPT ![r] = res.cause]
  /\ nput' = [nput EXCEPT ![r] = @ + res.puts]
  /\ store' = PutObjects(store, res.objs)
  /\ resp' = [resp EXCEPT ![r] = res.resp]
  /\ ext' = [ext EXCEPT ![r] = how]
  /\ browser' = [browser EXCEPT ![r] = session]
  /\ nextId' = nextId + ids
  /\ UNCHANGED << impl, config, ncall, clock >>

\* ... for a handler that launches no browser.
Commit(r, rq, res, ids, how) == Finish(r, rq, res, ids, how, "none")

\* The handler of r ran up to an await, having passed stages st and started
\* calls render calls or source fetches.
Await(r, rq, st, k, ids, calls) ==
  /\ pc' = [pc EXCEPT ![r] = "await"]
  /\ req' = [req EXCEPT ![r] = rq]
  /\ key' = [key EXCEPT ![r] = k]
  /\ stages' = [stages EXCEPT ![r] = @ \o st]
  /\ ncall' = [ncall EXCEPT ![r] = @ + calls]
  /\ nextId' = nextId + ids
  /\ UNCHANGED << impl, config, cause, nput, store, resp, ext, browser,
                  clock >>

\* ... at await file.read()
Suspend(r, rq, st, k, ids) == Await(r, rq, st, k, ids, 0)

Suspended(r, ep, deployment) ==
  impl = deployment /\ pc[r] = "await" /\ req[r].ep = ep

\* The wall clock moves on.
Tick ==
  /\ clock < MaxClock
  /\ clock' = clock + 1
  /\ UNCHANGED << impl, config, pc, req, key, stages, cause, nput, ncall,
                  store, resp, ext, browser, nextId >>


\* ------------------------------------------------------- upload.py handlers
Truthy(p) == p.some /\ p.str # << >>

\* if s.startswith('data:'): s = s.split(',')[1]
StripDataUrl(s) ==
  IF StartsWith(s, <<"d","a","t","a",":">>) THEN SplitComma1(s)
  ELSE [ok |-> TRUE, str |-> s]

\* the inner try of upload_image: strip, then base64.b64decode
DecodeImage(s) ==
  LET stripped == StripDataUrl(s) IN
  IF stripped.ok THEN B64Decode(stripped.str)
  ELSE [ok |-> FALSE, bytes |-> << >>]

\* POST /upload/image: the whole handler (it never suspends).
UploadImageRun(r, rq, timestamp, unique_id, ok) ==
  LET object_key ==
        OwnedKey("images", rq.owner, timestamp, unique_id, rq.fname)
      label == "Image upload failed"
  IN
  IF Truthy(rq.payload)
  THEN LET image_data == DecodeImage(rq.payload.str) IN
       IF ~image_data.ok
       THEN Result(<<"KeyAssigned", "Validated", "Failed">>, "decode",
                   object_key, 0, {},
                   ErrorResponse(CatchUpload(
                     HTTPException(400, "Invalid base64 image data"), label)))
       ELSE UploadTail(r, <<"KeyAssigned", "Validated", "PayloadObtained">>,
                       object_key, image_data.bytes, rq.ctype, ok, label,
                       "Image upload successful")
  ELSE Result(<<"KeyAssigned", "Failed">>, "validation", object_key, 0, {},
              ErrorResponse(CatchUpload(
                HTTPException(400, "file_base64 is required for image upload"),
                label)))

UploadImageFrom(r, payloads) ==
  /\ impl = "upload"
  /\ Fresh(r)
  /\ \E p \in payloads, f \in FileNames, o \in Owners, ok \in BOOLEAN :
       LET rq == Request("image", p, f, ImagePng, o, "") IN
       Commit(r, rq, UploadImageRun(r, rq, clock, nextId, ok), 1, "none")

UploadImage(r) == UploadImageFrom(r, CorePayloads)

\* if not file.content_type or not file.content_type.startswith('image/')
IsImageType(ct) == ct # NoCType /\ StartsWith(ct, <<"i","m","a","g","e","/">>)

\* POST /upload/image/file up to await file.read()
UploadImageFileBegin(r) ==
  /\ impl = "upload"
  /\ Fresh(r)
  /\ \E ct \in CTypes, f \in FileNames, o \in Owners :
       LET rq == Request("image_file", NoPayload, f, ct, o, "") IN
       IF ~IsImageType(ct)
       THEN Commit(r, rq,
                   Result(<<"Failed">>, "validation", NoKey, 0, {},
                          ErrorResponse(CatchUpload(
                            HTTPException(400, "File must be an image"),
                            "Image file upload failed"))),
                   0, "none")
       ELSE Suspend(r, rq, <<"Validated", "KeyAssigned">>,
                    OwnedKey("images", o, clock, nextId, f), 1)

\* ... and from there to the response
UploadImageFileResume(r) ==
  /\ Suspended(r, "image_file", "upload")
  /\ \E ok \in BOOLEAN :
       Commit(r, req[r],
              UploadTail(r, <<"PayloadObtained">>, key[r], FileBytes,
                         req[r].ctype, ok, "Image file upload failed",
                         "Image file upload successful"),
              0, "read")

\* How client.get(source_url) and raise_for_status() can end: a 2xx with an
\* audio/* or another content type, a non-2xx (httpx.HTTPStatusError), a
\* transport failure such as a timeout (httpx.TransportError), or an
\* exception outside httpx.HTTPError (httpx.InvalidURL).
FetchOutcomes ==
  {"audio", "other_type", "status_error", "transport_error", "invalid_url"}

\* POST /upload/audio up to await client.get(...)
UploadAudioBegin(r) ==
  /\ impl = "upload"
  /\ Fresh(r)
  /\ \E f \in FileNames, o \in Owners :
       Await(r, Request("audio", NoPayload, f, AudioWav, o, ""),
             <<"Validated", "KeyAssigned">>,
             OwnedKey("podcasts", o, clock, nextId, f), 1, 1)

\* response.content: what the source returned, audio or not.
FetchedBytes(fetched) == IF fetched = "audio" THEN SourceBytes ELSE PageBytes

\* Mutant of UploadAudioRun: a content type that is not audio/* is refused
\* instead of being logged.
UploadAudioRunStrict(r, k, ct, fetched, ok) ==
  LET label == "Audio upload failed" IN
  IF fetched \in {"status_error", "transport_error", "invalid_url",
                  "other_type"}
  THEN Result(<<"Failed">>, "fetch", k, 0, {},
              ErrorResponse(CatchUpload(
                HTTPException(400, "Failed to download audio from source URL"),
                label)))
  ELSE UploadTail(r, <<"PayloadObtained">>, k, FetchedBytes(fetched), ct, ok,
                  label, "Audio upload successful")

\* ... and from the answer of the source to the response
UploadAudioRun(r, k, ct, fetched, ok) ==
  LET label == "Audio upload failed" IN
  CASE fetched \in {"status_error", "transport_error"} ->
         Result(<<"Failed">>, "fetch", k, 0, {},
                ErrorResponse(CatchUpload(
                  HTTPException(400, "Failed to download audio from source URL"),
                  label)))
    [] fetched = "invalid_url" ->
         Result(<<"Failed">>, "fetch", k, 0, {},
                ErrorResponse(CatchUpload(Exception("InvalidURL"), label)))
    [] OTHER ->
         UploadTail(r, <<"PayloadObtained">>, k, FetchedBytes(fetched), ct, ok,
                    label, "Audio upload successful")

UploadAudioResume(r) ==
  /\ Suspended(r, "audio", "upload")
  /\ \E fetched \in FetchOutcomes, ok \in BOOLEAN :
       Commit(r, req[r],
              UploadAudioRun(r, key[r], req[r].ctype, fetched, ok), 0, fetched)

\* str.lower() on one character
Lower(c) ==
  IF \E i \in 1..26 : B64Alphabet[i] = c
  THEN B64Alphabet[(CHOOSE i \in 1..26 : B64Alphabet[i] = c) + 26]
  ELSE c

EndsWithPng(f) ==
  /\ Len(f) >= 4
  /\ [i \in 1..4 |-> Lower(f[Len(f) - 4 + i])] = DotPng

\* if not file_name.lower().endswith('.png'): file_name += '.png'
EnsurePng(f) == IF EndsWithPng(f) THEN f ELSE f \o DotPng

\* How a render call can end.
RenderOutcomes == {"rendered", "render_error"}

\* Mutant of PlaywrightStop: playwright is started without the context
\* manager and nothing stops it.
PlaywrightNeverStopped(session) == session

\* Leaving "async with async_playwright()", by return or by exception: the
\* driver is stopped, and with it every browser it launched.
PlaywrightStop(session) == IF session = "open" THEN "closed" ELSE session

\* The browser of a render call when the call returns or raises:
\* chromium.launch() opens it, browser.close() is reached only after the
\* screenshot (a "render_error" is the selector wait timing out, the element
\* not found or the screenshot failing, with the browser up), and the call
\* leaves the async with either way.
RenderSession(rendered) ==
  PlaywrightStop(IF rendered = "rendered" THEN "closed" ELSE "open")

\* POST /render-and-upload/{mermaid,code} up to the await of the renderer,
\* for a file_name among names
RenderAndUploadFrom(r, ep, category, names) ==
  /\ impl = "upload"
  /\ Fresh(r)
  /\ \E f \in names, o \in Owners :
       Await(r, Request(ep, NoPayload, f, ImagePng, o, ""),
             <<"Validated", "KeyAssigned">>,
             OwnedKey(category, o, clock, nextId, EnsurePng(f)), 1, 1)

RenderAndUploadBegin(r, ep, category) ==
  RenderAndUploadFrom(r, ep, category, FileNames)

\* Mutant of RenderAndUploadRun: the render failure is swallowed and the
\* handler goes on to the upload.
RenderAndUploadRunNoAbort(r, k, rendered, ok, renderDetail, label, message) ==
  LET t == UploadTail(r, <<"PayloadObtained">>, k, PngBytes, ImagePng, ok,
                      label, message)
  IN IF rendered # "rendered" THEN [t EXCEPT !.cause = "render"] ELSE t

RenderAndUploadRun(r, k, rendered, ok, renderDetail, label, message) ==
  IF rendered # "rendered"
  THEN Result(<<"Failed">>, "render", k, 0, {},
              ErrorResponse(CatchUpload(HTTPException(500, renderDetail),
                                        label)))
  ELSE UploadTail(r, <<"PayloadObtained">>, k, PngBytes, ImagePng, ok, label,
                  message)

RenderAndUploadMermaidBegin(r) == RenderAndUploadBegin(r, "mermaid", "diagrams")

RenderAndUploadMermaidResume(r) ==
  /\ Suspended(r, "mermaid", "upload")
  /\ \E rendered \in RenderOutcomes, ok \in BOOLEAN :
       Finish(r, req[r],
              RenderAndUploadRun(r, key[r], rendered, ok,
                "Mermaid rendering failed",
                "Mermaid rendering and upload failed",
                "Mermaid diagram rendered and uploaded successfully"),
              0, rendered, RenderSession(rendered))

RenderAndUploadCodeBegin(r) == RenderAndUploadBegin(r, "code", "code")

RenderAndUploadCodeResume(r) ==
  /\ Suspended(r, "code", "upload")
  /\ \E rendered \in RenderOutcomes, ok \in BOOLEAN :
       Finish(r, req[r],
              RenderAndUploadRun(r, key[r], rendered, ok,
                "Failed to render code to image",
                "Code rendering and upload failed",
                "Source code rendered and uploaded successfully"),
              0, rendered, RenderSession(rendered))

\* POST /upload/ up to await file.read()
UploadGenericFileBegin(r) ==
  /\ impl = "upload"
  /\ Fresh(r)
  /\ \E f \in FileNames, t \in FileTypes, ct \in {NoCType, TextPlain} :
       Suspend(r, Request("generic", NoPayload, f, ct, "", t),
               <<"Validated", "KeyAssigned">>,
               LegacyKey(t, clock, nextId, f), 1)

UploadGenericFileResume(r) ==
  /\ Suspended(r, "generic", "upload")
  /\ \E ok \in BOOLEAN :
       Commit(r, req[r],
              GenericTail(r, <<"PayloadObtained">>, key[r], FileBytes,
                          IF req[r].ctype = NoCType THEN OctetStream
                          ELSE req[r].ctype, ok),
              0, "read")

\* GET /health of upload.py: s3.head_bucket, 503 when it raises
HealthResponse(ok) ==
  IF ok
  THEN [status |-> 200, detail |-> "healthy", url |-> NoUrl, key |-> NoKey,
        conv |-> FALSE]
  ELSE [status |-> 503, detail |-> "unhealthy", url |-> NoUrl, key |-> NoKey,
        conv |-> TRUE]

HealthCheck(r) ==
  /\ impl = "upload"
  /\ Fresh(r)
  /\ \E ok \in BOOLEAN :
       Commit(r, Request("health", NoPayload, << >>, NoCType, "", ""),
              Result(<< >>, IF ok THEN "none" ELSE "probe", NoKey, 0, {},
                     HealthResponse(ok)),
              0, IF ok THEN "reachable" ELSE "unreachable")


\* -------------------------------------------------------- media.py handlers
\* POST /upload/ up to await file.read()
RouterUploadGenericFileBegin(r) ==
  /\ impl = "media"
  /\ Fresh(r)
  /\ \E f \in FileNames, t \in FileTypes, ct \in {NoCType, TextPlain} :
       Suspend(r, Request("generic", NoPayload, f, ct, "", t),
               <<"Validated", "KeyAssigned">>, RouterKey(t, nextId, f), 1)

RouterUploadGenericFileResume(r) ==
  /\ Suspended(r, "generic", "media")
  /\ \E ok \in BOOLEAN :
       Commit(r, req[r],
              RouterGenericTail(r, <<"PayloadObtained">>, key[r], FileBytes,
                                req[r].ctype, ok),
              0, "read")

\* The 422 FastAPI sends when the body does not fit ImageUploadRequest
\* (file_base64: str is required); the handler is not entered.
Unprocessable ==
  [status |-> 422, detail |-> "field required", url |-> NoUrl, key |-> NoKey,
   conv |-> TRUE]

\* POST /upload/image: the whole handler (it never suspends).
RouterUploadImageRun(r, rq, unique_id, ok) ==
  LET object_key == RouterKey("images", unique_id, rq.fname) IN
  IF Truthy(rq.payload)
  THEN LET image_data == B64Decode(rq.payload.str) IN
       IF ~image_data.ok
       THEN Result(<<"KeyAssigned", "Validated", "Failed">>, "decode",
                   object_key, 0, {},
                   ErrorResponse(CatchAny(Exception("binascii.Error"),
                                          "Incorrect padding")))
       ELSE RouterTail(r, <<"KeyAssigned", "Validated", "PayloadObtained">>,
                       object_key, image_data.bytes, rq.ctype, ok,
                       "put_object failed", "Upload successful")
  ELSE Result(<<"KeyAssigned", "Failed">>, "validation", object_key, 0, {},
              ErrorResponse(CatchAny(
                HTTPException(400, "No image data provided"),
                "No image data provided")))

RouterUploadImageFrom(r, payloads) ==
  /\ impl = "media"
  /\ Fresh(r)
  /\ \E p \in payloads, f \in FileNames, ok \in BOOLEAN :
       LET rq == Request("image", p, f, ImagePng, "", "") IN
       IF ~p.some
       THEN Commit(r, rq,
                   Result(<<"Failed">>, "validation", NoKey, 0, {},
                          Unprocessable),
                   0, "none")
       ELSE Commit(r, rq, RouterUploadImageRun(r, rq, nextId, ok), 1, "none")

RouterUploadImage(r) == RouterUploadImageFrom(r, CorePayloads)

\* POST /upload/image/file and POST /upload/audio up to await file.read()
RouterUploadFileBegin(r, ep, category) ==
  /\ impl = "media"
  /\ Fresh(r)
  /\ \E ct \in CTypes, f \in FileNames :
       Suspend(r, Request(ep, NoPayload, f, ct, "", ""),
               <<"Validated", "KeyAssigned">>,
               RouterKey(category, nextId, f), 1)

RouterUploadFileResume(r, ep) ==
  /\ Suspended(r, ep, "media")
  /\ \E ok \in BOOLEAN :
       Commit(r, req[r],
              RouterTail(r, <<"PayloadObtained">>, key[r], FileBytes,
                         req[r].ctype, ok, "put_object failed",
                         "Upload successful"),
              0, "read")

RouterUploadImageFileBegin(r) == RouterUploadFileBegin(r, "image_file", "images")
RouterUploadImageFileResume(r) == RouterUploadFileResume(r, "image_file")
RouterUploadAudioFileBegin(r) == RouterUploadFileBegin(r, "audio", "audio")
RouterUploadAudioFileResume(r) == RouterUploadFileResume(r, "audio")

\* The optional file_name of a render request; << >> is an absent one.
RenderFileNames == FileNames \cup { << >> }

\* POST /render-and-upload/{mermaid,code} up to the await of the renderer,
\* for a file_name among names
HandleRenderFrom(r, ep, names) ==
  /\ impl = "media"
  /\ Fresh(r)
  /\ \E f \in names :
       Await(r, Request(ep, NoPayload, f, ImagePng, "", ""),
             <<"Validated">>, NoKey, 0, 1)

HandleRenderBegin(r, ep) == HandleRenderFrom(r, ep, RenderFileNames)

\* ... and from the renderer's return to the response
HandleRenderRun(r, rq, category, timestamp, unique_id, rendered, ok, label, message) ==
  IF rendered # "rendered"
  THEN Result(<<"Failed">>, "render", NoKey, 0, {},
              ErrorResponse(CatchAny(Exception("render failed"), label)))
  ELSE RouterTail(r, <<"PayloadObtained", "KeyAssigned">>,
                  RenderKey(category, timestamp, unique_id, rq.fname),
                  PngBytes, ImagePng, ok, label, message)

HandleMermaidRenderBegin(r) == HandleRenderBegin(r, "mermaid")

HandleMermaidRenderResume(r) ==
  /\ Suspended(r, "mermaid", "media")
  /\ \E rendered \in RenderOutcomes, ok \in BOOLEAN :
       Commit(r, req[r],
              HandleRenderRun(r, req[r], "generated/mermaid", clock, nextId,
                rendered, ok, "Failed to render and upload Mermaid diagram",
                "Mermaid diagram rendered and uploaded successfully"),
              IF rendered = "rendered" THEN 1 ELSE 0, rendered)

HandleCodeRenderBegin(r) == HandleRenderBegin(r, "code")

HandleCodeRenderResume(r) ==
  /\ Suspended(r, "code", "media")
  /\ \E rendered \in RenderOutcomes, ok \in BOOLEAN :
       Finish(r, req[r],
              HandleRenderRun(r, req[r], "generated/code", clock, nextId,
                rendered, ok, "Failed to render and upload code",
                "Code snippet rendered and uploaded successfully"),
              IF rendered = "rendered" THEN 1 ELSE 0, rendered,
              RenderSession(rendered))

\* GET /health of app/main.py: s3.list_buckets(), a plain dict either way
MainHealthResponse(ok) ==
  IF ok
  THEN [status |-> 200, detail |-> "healthy", url |-> NoUrl, key |-> NoKey,
        conv |-> FALSE]
  ELSE [status |-> 200, detail |-> "unhealthy", url |-> NoUrl, key |-> NoKey,
        conv |-> TRUE]

MainHealthCheck(r) ==
  /\ impl = "media"
  /\ Fresh(r)
  /\ \E ok \in BOOLEAN :
       Commit(r, Request("health", NoPayload, << >>, NoCType, "", ""),
              Result(<< >>, IF ok THEN "none" ELSE "probe", NoKey, 0, {},
                     MainHealthResponse(ok)),
              0, IF ok THEN "reachable" ELSE "unreachable")

\* ------------------------------------------------------------ specification
Next ==
  \/ Tick
  \/ \E r \in Reqs :
       \/ UploadImage(r)
       \/ UploadImageFileBegin(r)
       \/ UploadImageFileResume(r)
       \/ UploadAudioBegin(r)
       \/ UploadAudioResume(r)
       \/ RenderAndUploadMermaidBegin(r)
       \/ RenderAndUploadMermaidResume(r)
       \/ RenderAndUploadCodeBegin(r)
       \/ RenderAndUploadCodeResume(r)
       \/ UploadGenericFileBegin(r)
       \/ UploadGenericFileResume(r)
       \/ HealthCheck(r)
       \/ RouterUploadGenericFileBegin(r)
       \/ RouterUploadGenericFileResume(r)
       \/ RouterUploadImage(r)
       \/ RouterUploadImageFileBegin(r)
       \/ RouterUploadImageFileResume(r)
       \/ RouterUploadAudioFileBegin(r)
       \/ RouterUploadAudioFileResume(r)
       \/ HandleMermaidRenderBegin(r)
       \/ HandleMermaidRenderResume(r)
       \/ HandleCodeRenderBegin(r)
       \/ HandleCodeRenderResume(r)
       \/ MainHealthCheck(r)

Spec == Init /\ [][Next]_vars

\* A suspended handler is resumed: every await is a local file read or a
\* call with a timeout (httpx 30 s, the selector wait 10 s, playwright's
\* own defaults), so the event loop gets back to it.
Resume(r) ==
  \/ UploadImageFileResume(r)
  \/ UploadAudioResume(r)
  \/ RenderAndUploadMermaidResume(r)
  \/ RenderAndUploadCodeResume(r)
  \/ UploadGenericFileResume(r)
  \/ RouterUploadGenericFileResume(r)
  \/ RouterUploadImageFileResume(r)
  \/ RouterUploadAudioFileResume(r)
  \/ HandleMermaidRenderResume(r)
  \/ HandleCodeRenderResume(r)

\* The payload of the image uploads of SpecLive.
LivePayloads == { Payload(B64Encode(<<77>>)) }

\* The requests of SpecLive: every handler that suspends, and the image
\* upload, which puts without suspending; the clock stands still.
NextLive ==
  \E r \in Reqs :
    \/ UploadImageFrom(r, LivePayloads)
    \/ UploadImageFileBegin(r)
    \/ UploadAudioBegin(r)
    \/ RenderAndUploadMermaidBegin(r)
    \/ RenderAndUploadCodeBegin(r)
    \/ UploadGenericFileBegin(r)
    \/ RouterUploadImageFrom(r, LivePayloads)
    \/ RouterUploadGenericFileBegin(r)
    \/ RouterUploadImageFileBegin(r)
    \/ RouterUploadAudioFileBegin(r)
    \/ HandleMermaidRenderBegin(r)
    \/ HandleCodeRenderBegin(r)
    \/ Resume(r)

SpecLive == Init /\ [][NextLive]_vars /\ \A r \in Reqs : WF_vars(Resume(r))

\* One POST /upload/image per run, over every payload of DecodePayloads.
DecodeImageUpload == UploadImageFrom(1, DecodePayloads)
DecodeRouterImageUpload == RouterUploadImageFrom(1, DecodePayloads)

NextDecode ==
  \/ Tick
  \/ DecodeImageUpload
  \/ DecodeRouterImageUpload

SpecDecode == Init /\ [][NextDecode]_vars

\* The file names of the render requests of SpecRender: without the
\* extension, with it in lower, upper and mixed case, shorter than the
\* extension, the extension alone, and an empty or absent one.
PngNames ==
  { <<"c","a","t">>, <<"c","a","t",".","p","n","g">>,
    <<"a",".","P","N","G">>, <<"a",".","P","n","g">>, <<"p","n","g">>,
    <<".","p","n","g">>, << >> }

\* Render requests only, over every name of PngNames.
PngMermaidBegin(r) == RenderAndUploadFrom(r, "mermaid", "diagrams", PngNames)
PngCodeBegin(r) == RenderAndUploadFrom(r, "code", "code", PngNames)
PngRouterMermaidBegin(r) == HandleRenderFrom(r, "mermaid", PngNames)
PngRouterCodeBegin(r) == HandleRenderFrom(r, "code", PngNames)

NextRender ==
  \/ Tick
  \/ \E r \in Reqs :
       \/ PngMermaidBegin(r)
       \/ RenderAndUploadMermaidResume(r)
       \/ PngCodeBegin(r)
       \/ RenderAndUploadCodeResume(r)
       \/ PngRouterMermaidBegin(r)
       \/ HandleMermaidRenderResume(r)
       \/ PngRouterCodeBegin(r)
       \/ HandleCodeRenderResume(r)

SpecRender == Init /\ [][NextRender]_vars


\* =================================================================== claims
Done(r) == pc[r] = "done"
Pipeline(r) ==
  req[r].ep \in {"generic", "image", "image_file", "audio", "mermaid", "code"}
ObjectsOf(r) == { o \in store : o.by = r }
Has(r, stage) == \E i \in 1..Len(stages[r]) : stages[r][i] = stage
ClientError(status) == status >= 400 /\ status <= 499
ServerError(status) == status >= 500 /\ status <= 599

\* C1: a request whose validation, base64 decoding, source fetch or rendering
\* failed has issued no store put and has no object in the store.
C1_FailedBeforeStoreNeverPuts ==
  \A r \in Reqs :
    cause[r] \in {"validation", "decode", "fetch", "render"}
      => /\ nput[r] = 0
         /\ ObjectsOf(r) = {}
         /\ ~Has(r, "Stored")

\* C1 witness: a render failed and a decode failed in the same run, while
\* the store is in use.
C1_Witness ==
  \E r, q \in Reqs :
    /\ Done(r) /\ cause[r] \in {"render", "fetch"} /\ Has(r, "Failed")
    /\ Done(q) /\ cause[q] \in {"decode", "validation"}

\* C2: a request whose store put failed ends in one server-error response
\* with no URL and no storage key, never in a success response, and the
\* store holds no object of it.
C2_FailedPutIsServerError ==
  \A r \in Reqs :
    cause[r] = "put"
      => /\ Done(r)
         /\ ServerError(resp[r].status)
         /\ resp[r].url = NoUrl
         /\ resp[r].key = NoKey
         /\ ~Has(r, "Responded")
         /\ ObjectsOf(r) = {}
         /\ nput[r] = 1

\* C2 witness: a put failed on a request that had its payload and its key.
C2_Witness ==
  \E r \in Reqs :
    /\ cause[r] = "put" /\ Pipeline(r) /\ key[r] # NoKey
    /\ Has(r, "PayloadObtained") /\ Has(r, "Failed")


\* The place of a stage among the stages r has passed (0: not passed).
Pos(r, stage) ==
  IF Has(r, stage)
  THEN CHOOSE i \in 1..Len(stages[r]) : stages[r][i] = stage
  ELSE 0
Precedes(r, a, b) == Has(r, a) /\ Has(r, b) /\ Pos(r, a) < Pos(r, b)

C4_MissingPayloadIsClientError ==
  \A r \in Reqs :
    (Done(r) /\ req[r].ep = "image" /\ ~Truthy(req[r].payload))
      => /\ ClientError(resp[r].status)
         /\ nput[r] = 0
         /\ ObjectsOf(r) = {}

\* C5: POST /upload/image with a payload that cannot be decoded is answered
\* with a client error, never a server error, and stores nothing.
C5_UndecodableIsClientError ==
  \A r \in Reqs :
    (Done(r) /\ req[r].ep = "image" /\ cause[r] = "decode")
      => /\ ClientError(resp[r].status)
         /\ nput[r] = 0
         /\ ObjectsOf(r) = {}

\* C6: POST /upload/image/file with an absent or non-image content type is
\* rejected with a client error before a key is assigned or bytes are stored.
C6_NonImageFileRejected ==
  \A r \in Reqs :
    (pc[r] # "idle" /\ req[r].ep = "image_file" /\ ~IsImageType(req[r].ctype))
      => /\ Done(r)
         /\ ClientError(resp[r].status)
         /\ key[r] = NoKey
         /\ nput[r] = 0
         /\ ObjectsOf(r) = {}

\* C7: for every byte string b, POST /upload/image with base64(b) and with
\* the data-URL prefix before base64(b) stores exactly b (whenever the store
\* takes the put).  Stated for the nonempty b: the base64 of the empty byte
\* string is the empty payload, which is a missing one (C4).
C7_PrefixedAndBareStoreSameBytes ==
  \A r \in Reqs : \A b \in ByteStrs(MaxBytes) \ { << >> } :
    (/\ Done(r) /\ req[r].ep = "image" /\ cause[r] # "put"
     /\ req[r].payload \in { Payload(B64Encode(b)),
                             Payload(DataUrlPrefix \o B64Encode(b)) })
      => \E o \in ObjectsOf(r) : o.body = b

\* C8: GET /health always answers 200 with status healthy or unhealthy and
\* writes nothing to the store.
C8_HealthAlways200 ==
  \A r \in Reqs :
    (Done(r) /\ req[r].ep = "health")
      => /\ resp[r].status = 200
         /\ resp[r].detail \in {"healthy", "unhealthy"}
         /\ nput[r] = 0
         /\ ObjectsOf(r) = {}

\* C9: no two requests are ever assigned the same object key, and the
\* object a request stored is still the one at its key.
C9_KeysNeverCollide ==
  /\ \A r, q \in Reqs :
       (r # q /\ key[r] # NoKey /\ key[q] # NoKey) => key[r] # key[q]
  /\ \A r \in Reqs :
       Has(r, "Stored") => \E o \in store : o.key = key[r] /\ o.by = r

\* C9 witness: two requests with the same endpoint, owner, file name and
\* payload, keyed in the same second, have both stored their object.
C9_Witness ==
  \E r, q \in Reqs :
    /\ r # q /\ req[r] = req[q] /\ Pipeline(r)
    /\ Has(r, "Stored") /\ Has(q, "Stored")
    /\ impl = "upload" /\ key[r][Len(key[r])][1] = key[q][Len(key[q])][1]
    /\ Cardinality(store) = 2

\* The category under which an endpoint files its objects.
Categories(r) ==
  CASE req[r].ep = "generic" -> {req[r].ftype}
    [] req[r].ep \in {"image", "image_file"} -> {"images"}
    [] req[r].ep = "audio" -> {"podcasts", "audio"}
    [] req[r].ep = "mermaid" -> {"diagrams", "generated/mermaid"}
    [] req[r].ep = "code" -> {"code", "generated/code"}
    [] OTHER -> {}

\* C10: every assigned key is {category}/{owner-or-absent}/
\* {timestamp}_{unique-id}_{filename}.
C10_KeyLayout ==
  \A r \in Reqs :
    key[r] # NoKey =>
      LET k == key[r]
          last == k[Len(k)]
      IN /\ Len(k) = (IF req[r].owner = "" THEN 2 ELSE 3)
         /\ \E c \in Categories(r) : k[1] = <<Lit(c)>>
         /\ req[r].owner # "" => k[2] = <<Lit(req[r].owner)>>
         /\ Len(last) = 3
         /\ last[1].tag = "ts"
         /\ last[2].tag = "uuid" /\ last[2].chars = << >>
         /\ last[3].tag = "name"
         /\ last[3].chars \in {req[r].fname, req[r].fname \o DotPng}

\* The text a key ends with: the chars of its last token.
KeyTail(k) == LET last == k[Len(k)] IN last[Len(last)]

\* C11: on the render endpoints the file name part of the key ends in .png
\* (in any case): a requested name without the extension has .png appended,
\* a name that ends in .png already is used as it is, and applying the rule
\* twice gives what applying it once gives.
C11_RenderKeyEndsInPng ==
  \A r \in Reqs :
    (req[r].ep \in {"mermaid", "code"} /\ key[r] # NoKey)
      => LET f == req[r].fname IN
         /\ EndsWithPng(KeyTail(key[r]).chars)
         /\ f # << >> =>
              /\ KeyTail(key[r]) = Name(EnsurePng(f))
              /\ EndsWithPng(f) => KeyTail(key[r]) = Name(f)
              /\ ~EndsWithPng(f) => KeyTail(key[r]) = Name(f \o DotPng)
         /\ EnsurePng(EnsurePng(f)) = EnsurePng(f)

\* C12: on the audio-from-URL upload a non-2xx answer or a transport failure
\* (a timeout included) of the source fetch ends the request in a failure of
\* the fetch stage, answered with a server error, and no put is made.
C12_FetchFailureIsServerError ==
  \A r \in Reqs :
    (/\ Done(r) /\ req[r].ep = "audio"
     /\ ext[r] \in {"status_error", "transport_error"})
      => /\ cause[r] = "fetch"
         /\ Has(r, "Failed")
         /\ ServerError(resp[r].status)
         /\ nput[r] = 0
         /\ ObjectsOf(r) = {}

\* C13: on the audio-from-URL upload, when the source answers 2xx with a
\* content type that is not audio/*, the request is not failed by it: the
\* handler issues the one put under the request's key, and unless the store
\* refuses that put the object holds exactly the bytes the source returned
\* and the response is the success response with that key.
C13_NonAudioTypeDoesNotBlock ==
  \A r \in Reqs :
    (Done(r) /\ req[r].ep = "audio" /\ ext[r] = "other_type")
      => /\ cause[r] \in {"none", "put"}
         /\ key[r] # NoKey
         /\ Has(r, "PayloadObtained")
         /\ nput[r] = 1
         /\ cause[r] = "none" =>
              /\ ObjectsOf(r) =
                   {Object(key[r], PageBytes, req[r].ctype, r)}
              /\ Has(r, "Stored") /\ Has(r, "Responded")
              /\ resp[r].status = 200
              /\ resp[r].key = key[r]

\* C13 witness: a source answered with a page, and the page is in the store
\* under the request's key, answered 200.
C13_Witness ==
  \E r \in Reqs :
    /\ Done(r) /\ req[r].ep = "audio" /\ ext[r] = "other_type"
    /\ resp[r].status = 200
    /\ \E o \in store : o.by = r /\ o.key = key[r] /\ o.body = PageBytes

\* C14: every failure of a pipeline stage (validation, decode, fetch, render,
\* put) is caught in the handler of its request and answered with one
\* structured error response that carries a detail string; no exception
\* leaves a handler unconverted.
C14_EveryFailureConverted ==
  \A r \in Reqs :
    (Done(r) /\ Pipeline(r) /\ cause[r] # "none")
      => /\ resp[r].conv
         /\ resp[r].status >= 400
         /\ resp[r].detail # ""
         /\ resp[r].url = NoUrl
         /\ Has(r, "Failed")

\* C15: every success response of an upload or render request carries the
\* public URL and the storage key, and that storage key is the key of the
\* put of the same request.
C15_SuccessCarriesUrlAndKey ==
  \A r \in Reqs :
    (Done(r) /\ Pipeline(r) /\ resp[r].status = 200)
      => /\ resp[r].url # NoUrl
         /\ resp[r].key # NoKey
         /\ resp[r].key = key[r]
         /\ nput[r] = 1
         /\ \E o \in ObjectsOf(r) : o.key = resp[r].key

\* C16: the URL of a success response is https://{bucket}.s3.{region}.
\* amazonaws.com/{key} with key the key of the put of the same request: it
\* is made of the bucket, the region and the key and nothing else, so equal
\* keys give equal URLs and different keys different URLs.
C16_UrlIsBucketRegionKey ==
  /\ \A r \in Reqs :
       (Done(r) /\ Pipeline(r) /\ resp[r].status = 200)
         => /\ resp[r].url = << "https", S3_BUCKET, "s3", AWS_REGION, key[r] >>
            /\ key[r] # NoKey
            /\ \E o \in ObjectsOf(r) : o.key = key[r]
  /\ \A r, q \in Reqs :
       (resp[r].status = 200 /\ resp[q].status = 200
        /\ Pipeline(r) /\ Pipeline(q))
         => (resp[r].url = resp[q].url <=> key[r] = key[q])

\* C16 witness: two requests on different endpoints were answered 200 with
\* the URLs of their two keys.
C16_Witness ==
  \E r, q \in Reqs :
    /\ r # q /\ req[r].ep # req[q].ep
    /\ Pipeline(r) /\ Pipeline(q)
    /\ resp[r].status = 200 /\ resp[q].status = 200
    /\ resp[r].url # NoUrl /\ resp[r].url # resp[q].url
    /\ resp[r].url[5] = key[r] /\ resp[q].url[5] = key[q]

\* The render endpoints whose renderer launches a headless browser: the code
\* renderer, and the diagram renderer of upload.py (media.py's asks
\* mermaid.ink).
UsesBrowser(r) ==
  req[r].ep = "code" \/ (req[r].ep = "mermaid" /\ impl = "upload")

\* C17: a finished render call never leaves its browser open: after the
\* success path and after every failure path on which a browser had been
\* launched the browser is closed, and no other request has a browser.
C17_BrowserClosedWhenRenderEnds ==
  \A r \in Reqs :
    /\ browser[r] # "none" => UsesBrowser(r)
    /\ Done(r) =>
         /\ browser[r] # "open"
         /\ UsesBrowser(r) => browser[r] = "closed"

\* C17 witness: one render call failed while its browser was up, another
\* took its screenshot, and both browsers are closed.
C17_Witness ==
  \E r, q \in Reqs :
    /\ Done(r) /\ UsesBrowser(r) /\ ext[r] = "render_error"
    /\ cause[r] = "render" /\ browser[r] = "closed"
    /\ Done(q) /\ UsesBrowser(q) /\ ext[q] = "rendered"
    /\ browser[q] = "closed"

\* No stage occurs twice among the stages r has passed.
EachStageOnce(r) ==
  \A i \in 1..Len(stages[r]) : \A j \in 1..(i - 1) :
    stages[r][i] # stages[r][j]

\* The requests whose handler awaits a render call or a source fetch.
CallsOut(r) ==
  req[r].ep \in {"mermaid", "code"} \/ (req[r].ep = "audio" /\ impl = "upload")

\* C18: a request issues at most one put and starts at most one render call
\* or source fetch, and passes each stage at most once; once a stage has
\* failed the request is finished with its one error response: nothing was
\* put after a failed call, and a failed put was the only put.
C18_SinglePass ==
  \A r \in Reqs :
    /\ nput[r] <= 1
    /\ ncall[r] <= 1
    /\ ncall[r] = 1 <=> (pc[r] # "idle" /\ CallsOut(r))
    /\ EachStageOnce(r)
    /\ cause[r] # "none" =>
         /\ Done(r)
         /\ resp[r] # NoResp
         /\ Pipeline(r) =>
              /\ resp[r].status >= 400
              /\ stages[r][Len(stages[r])] = "Failed"
         /\ nput[r] = (IF cause[r] = "put" THEN 1 ELSE 0)
    /\ Done(r) <=> resp[r] # NoResp

\* C18 witness: in one run a render call failed, a put failed after a render
\* call, and each of the two requests made its one call and was answered.
C18_Witness ==
  \E r, q \in Reqs :
    /\ Done(r) /\ cause[r] \in {"render", "fetch"}
    /\ ncall[r] = 1 /\ nput[r] = 0
    /\ Done(q) /\ cause[q] = "put" /\ ncall[q] = 1 /\ nput[q] = 1
    /\ ServerError(resp[q].status)

\* What belongs to request q: its fields and the objects it stored.
OwnState(q) ==
  << pc[q], req[q], key[q], stages[q], cause[q], nput[q], ncall[q], resp[q],
     ext[q], browser[q], ObjectsOf(q) >>

\* C19: with several requests in flight, a step of one request (its failure
\* or timeout included) changes nothing of another request, neither its
\* fields nor its stored objects; no step changes the bucket name, the
\* region or the client handle; a finished request has ended in Responded
\* or in Failed, and eventually no request is in flight any more.
C19_RequestsIndependent ==
  /\ [](config = Startup)
  /\ [][\A q \in Reqs : (pc[q]' = pc[q]) => (OwnState(q)' = OwnState(q))]_vars
  /\ [](\A r \in Reqs : Done(r) => (Has(r, "Responded") \/ Has(r, "Failed")))
  /\ <>[](\A r \in Reqs : pc[r] # "await")

\* C19 witness: a request that started later has already failed on a
\* timeout or another failure of its call or of its put, while an earlier
\* one that has stored nothing yet is still in flight.
C19_Witness ==
  \E r, q \in Reqs :
    /\ r < q
    /\ pc[r] = "await" /\ ObjectsOf(r) = {}
    /\ Done(q) /\ Has(q, "Failed")
    /\ cause[q] \in {"fetch", "render", "put"}

====
